---- MODULE Spec2Model ----
(***************************************************************************)
(* PluginRegistry of litellm_plugin/registry.py: the name -> type mapping  *)
(* (_providers), the lazily filled name -> instance mapping (_instances),  *)
(* and the host dispatch table litellm.custom_provider_map.                *)
(***************************************************************************)
EXTENDS Integers, Sequences, FiniteSets, TLC

\* Number of provider objects that may be constructed in one behaviour.
MaxObjects == 2
\* Longest host dispatch table explored.
MaxMapLen == 2
\* Longest list a caller builds from a list that list_providers() returned.
MaxHeldLen == 3
\* Longest list of messages passed to a provider's completion().
MaxMessages == 3
\* Longest response content, longest blocked word and most blocked words of a ContentFilter.
MaxContentLen == 3
MaxWordLen == 2
MaxWords == 2

\* Provider names handed to the registry (any string is a legal key).
Names == {"a", "b"}
\* A name that is looked up, unregistered and initialized but never registered.
UnknownNames == {"nonexistent"}
AllNames == Names \cup UnknownNames

\* Provider classes handed to register(): two concrete providers, a subclass
\* that leaves completion() abstract, and a class outside the hierarchy.
ProviderTypes == {"TestProviderA", "TestProviderB", "AbstractProvider", "NotAProvider"}

\* issubclass(provider_class, BaseCustomProvider)
IsSubclassOfBase(T) == T # "NotAProvider"

\* provider_class() raises: an ABC with an abstract method cannot be instantiated.
CtorRaises(T) == T = "AbstractProvider"

\* dict.get's "not found" value, shaped like an instance so it can be compared with one.
None == [id |-> 0, owner |-> "-", cls |-> "None"]

VARIABLES
    providers,            \* _providers: insertion-ordered dict, a sequence of [name, cls]
    instances,            \* _instances: function from the cached names to [id, cls]
    custom_provider_map,  \* litellm.custom_provider_map: sequence of [provider, custom_handler]
    LITELLM_AVAILABLE,    \* module flag set by the import of litellm
    nextId,               \* per name, the serial the next object constructed for it receives
    retired,              \* per name, the instances that were cached when the name was unregistered
    held,                 \* the object a caller kept from an earlier list_providers()
    app,                  \* the provider or logger call under examination: its arguments, stage, outcome
    local,                \* a PluginRegistry object constructed apart from the process-wide one
    got,                  \* what the free functions handed out last: registry objects, instance
    call,                 \* the last completed call: operation, arguments, outcome, return value
    pc,                   \* per thread, its position inside get_provider / unregister
    loc                   \* per thread, the call's argument, locals and return value

vars == <<providers, instances, custom_provider_map, LITELLM_AVAILABLE, nextId, retired, held,
          app, local, got, call, pc, loc>>

\* Threads that call into one registry without an external lock.
Threads == {1, 2}
thrVars == <<pc, loc>>
Idle == [op |-> "-", name |-> "-", cls |-> "-", obj |-> None, sawMissing |-> FALSE,
         outcome |-> "-", result |-> None]

\* ---- the insertion-ordered dict _providers ----
Keys(d) == {d[i].name : i \in 1..Len(d)}
Lookup(d, n) == d[CHOOSE i \in 1..Len(d) : d[i].name = n].cls
DictSet(d, n, T) == Append(d, [name |-> n, cls |-> T])
DictDel(d, n) == SelectSeq(d, LAMBDA e : e.name # n)

\* ---- the dict _instances ----
InstSet(m, n, obj) == [k \in (DOMAIN m) \cup {n} |-> IF k = n THEN obj ELSE m[k]]
InstDel(m, n) == [k \in (DOMAIN m) \ {n} |-> m[k]]
InstGet(m, n) == IF n \in DOMAIN m THEN m[n] ELSE None

\* A constructed provider object; its identity is the pair (owner, id): the name it
\* was constructed for and its serial among the objects constructed for that name.
NewObject(n, id, T) == [id |-> id, owner |-> n, cls |-> T]
\* Number of provider objects constructed so far.
RECURSIVE SerialsUsed(_, _)
SerialsUsed(ids, S) ==
    IF S = {} THEN 0
    ELSE LET n == CHOOSE x \in S : TRUE IN (ids[n] - 1) + SerialsUsed(ids, S \ {n})
Constructed(ids) == SerialsUsed(ids, Names)
Bump(ids, n) == [ids EXCEPT ![n] = @ + 1]
Record(n, obj) == [provider |-> n, custom_handler |-> obj]

\* No provider or logger call is under examination.
NoApp == [fn |-> "-"]

\* No PluginRegistry() has been constructed apart from the process-wide one.
NoRegistry == [made |-> FALSE, providers |-> <<>>, instances |-> <<>>]

\* Nothing has been handed out by get_registry() or the module-level get_provider().
NothingGot ==
    [via |-> "-", registry |-> "-", before |-> "-", target |-> "-", name |-> "-",
     outcome |-> "-", result |-> None, listing |-> <<>>]

\* What a caller holds before it has kept any list.
NoList == [kind |-> "none", items |-> <<>>]

\* list_providers() that returns self._providers.keys(), the mapping's live key view.
ListProvidersResultView(provs) == [kind |-> "view", items |-> [i \in 1..Len(provs) |-> provs[i].name]]

\* list(self._providers.keys()): a new list object holding the registered names in
\* the mapping's order; kind "view" is an object that reads through to the mapping.
ListProvidersResult(provs) == [kind |-> "list", items |-> [i \in 1..Len(provs) |-> provs[i].name]]

\* The elements seen through a held object now.
HeldItems ==
    IF held.kind = "view" THEN [i \in 1..Len(providers) |-> providers[i].name] ELSE held.items

Done(op, n, T, outcome, result, listing) ==
    [op |-> op, name |-> n, cls |-> T, outcome |-> outcome, result |-> result, listing |-> listing]

Init ==
    /\ providers = <<>>
    /\ instances = <<>>
    /\ custom_provider_map = <<>>
    /\ LITELLM_AVAILABLE \in BOOLEAN
    /\ nextId = [n \in Names |-> 1]
    /\ retired = [n \in AllNames |-> {}]
    /\ held = NoList
    /\ app = NoApp
    /\ local = NoRegistry
    /\ got = NothingGot
    /\ call = Done("__init__", "-", "-", "ok", None, <<>>)
    /\ pc = [t \in Threads |-> "idle"]
    /\ loc = [t \in Threads |-> Idle]

\* The state after construction, without the call under examination.
InitExceptApp ==
    /\ providers = <<>>
    /\ instances = <<>>
    /\ custom_provider_map = <<>>
    /\ LITELLM_AVAILABLE \in BOOLEAN
    /\ nextId = [n \in Names |-> 1]
    /\ retired = [n \in AllNames |-> {}]
    /\ held = NoList
    /\ local = NoRegistry
    /\ got = NothingGot
    /\ call = Done("__init__", "-", "-", "ok", None, <<>>)
    /\ pc = [t \in Threads |-> "idle"]
    /\ loc = [t \in Threads |-> Idle]

\* register() without the duplicate-name guard: the new class replaces the stored one.
RegisterOverwrites(name, T) ==
    /\ UNCHANGED <<thrVars, held, app, local, got>>
    /\ UNCHANGED <<instances, custom_provider_map, LITELLM_AVAILABLE, nextId, retired>>
    /\ IF ~IsSubclassOfBase(T)
       THEN /\ call' = Done("register", name, T, "TypeError", None, <<>>)
            /\ UNCHANGED providers
       ELSE /\ providers' = IF name \in Keys(providers)
                            THEN [i \in 1..Len(providers) |->
                                    IF providers[i].name = name
                                    THEN [name |-> name, cls |-> T] ELSE providers[i]]
                            ELSE DictSet(providers, name, T)
            /\ call' = Done("register", name, T, "ok", None, <<>>)

\* register() without the issubclass guard.
RegisterNoTypeCheck(name, T) ==
    /\ UNCHANGED <<thrVars, held, app, local, got>>
    /\ UNCHANGED <<instances, custom_provider_map, LITELLM_AVAILABLE, nextId, retired>>
    /\ IF name \in Keys(providers)
       THEN /\ call' = Done("register", name, T, "ValueError", None, <<>>)
            /\ UNCHANGED providers
       ELSE /\ providers' = DictSet(providers, name, T)
            /\ call' = Done("register", name, T, "ok", None, <<>>)

\* register() that also constructs the instance.
RegisterEager(name, T) ==
    /\ UNCHANGED <<thrVars, held, app, local, got>>
    /\ UNCHANGED <<custom_provider_map, LITELLM_AVAILABLE, retired>>
    /\ IF name \in Keys(providers)
       THEN /\ call' = Done("register", name, T, "ValueError", None, <<>>)
            /\ UNCHANGED <<providers, instances, nextId>>
       ELSE IF ~IsSubclassOfBase(T)
       THEN /\ call' = Done("register", name, T, "TypeError", None, <<>>)
            /\ UNCHANGED <<providers, instances, nextId>>
       ELSE IF CtorRaises(T)
       THEN /\ call' = Done("register", name, T, "CtorError", None, <<>>)
            /\ UNCHANGED <<providers, instances, nextId>>
       ELSE /\ Constructed(nextId) < MaxObjects
            /\ providers' = DictSet(providers, name, T)
            /\ instances' = InstSet(instances, name, NewObject(name, nextId[name], T))
            /\ nextId' = Bump(nextId, name)
            /\ call' = Done("register", name, T, "ok", None, <<>>)

\* register() that tests the class before the name.
RegisterTypeCheckFirst(name, T) ==
    /\ UNCHANGED <<thrVars, held, app, local, got>>
    /\ UNCHANGED <<instances, custom_provider_map, LITELLM_AVAILABLE, nextId, retired>>
    /\ IF ~IsSubclassOfBase(T)
       THEN /\ call' = Done("register", name, T, "TypeError", None, <<>>)
            /\ UNCHANGED providers
       ELSE IF name \in Keys(providers)
       THEN /\ call' = Done("register", name, T, "ValueError", None, <<>>)
            /\ UNCHANGED providers
       ELSE /\ providers' = DictSet(providers, name, T)
            /\ call' = Done("register", name, T, "ok", None, <<>>)

\* register(provider_name, provider_class)
Register(name, T) ==
    /\ UNCHANGED <<thrVars, held, app, local, got>>
    /\ UNCHANGED <<instances, custom_provider_map, LITELLM_AVAILABLE, nextId, retired>>
    /\ IF name \in Keys(providers)
       THEN /\ call' = Done("register", name, T, "ValueError", None, <<>>)
            /\ UNCHANGED providers
       ELSE IF ~IsSubclassOfBase(T)
       THEN /\ call' = Done("register", name, T, "TypeError", None, <<>>)
            /\ UNCHANGED providers
       ELSE /\ providers' = DictSet(providers, name, T)
            /\ call' = Done("register", name, T, "ok", None, <<>>)

\* unregister() that forgets to drop the cached instance.
UnregisterKeepsInstance(name) ==
    /\ UNCHANGED <<thrVars, held, app, local, got>>
    /\ UNCHANGED <<custom_provider_map, LITELLM_AVAILABLE, nextId, instances>>
    /\ call' = Done("unregister", name, "-", "ok", None, <<>>)
    /\ IF name \in Keys(providers)
       THEN /\ providers' = DictDel(providers, name)
            /\ retired' = IF name \in DOMAIN instances
                          THEN [retired EXCEPT ![name] = @ \cup {instances[name]}]
                          ELSE retired
       ELSE UNCHANGED <<providers, retired>>

\* unregister() that keys its work on the instance mapping instead of the type mapping.
UnregisterOnlyIfInstantiated(name) ==
    /\ UNCHANGED <<thrVars, held, app, local, got>>
    /\ UNCHANGED <<custom_provider_map, LITELLM_AVAILABLE, nextId>>
    /\ call' = Done("unregister", name, "-", "ok", None, <<>>)
    /\ IF name \in DOMAIN instances
       THEN /\ providers' = DictDel(providers, name)
            /\ instances' = InstDel(instances, name)
            /\ retired' = [retired EXCEPT ![name] = @ \cup {instances[name]}]
       ELSE UNCHANGED <<providers, instances, retired>>

\* unregister() without the "in self._providers" guard: del raises KeyError.
UnregisterNoGuard(name) ==
    /\ UNCHANGED <<thrVars, held, app, local, got>>
    /\ UNCHANGED <<custom_provider_map, LITELLM_AVAILABLE, nextId>>
    /\ IF name \in Keys(providers)
       THEN /\ call' = Done("unregister", name, "-", "ok", None, <<>>)
            /\ providers' = DictDel(providers, name)
            /\ instances' = IF name \in DOMAIN instances THEN InstDel(instances, name) ELSE instances
            /\ retired' = IF name \in DOMAIN instances
                          THEN [retired EXCEPT ![name] = @ \cup {instances[name]}]
                          ELSE retired
       ELSE /\ call' = Done("unregister", name, "-", "KeyError", None, <<>>)
            /\ UNCHANGED <<providers, instances, retired>>

\* unregister() that also removes the name's records from the host table.
UnregisterPurgesHostTable(name) ==
    /\ UNCHANGED <<thrVars, held, app, local, got>>
    /\ UNCHANGED <<LITELLM_AVAILABLE, nextId>>
    /\ call' = Done("unregister", name, "-", "ok", None, <<>>)
    /\ IF name \in Keys(providers)
       THEN /\ providers' = DictDel(providers, name)
            /\ instances' = IF name \in DOMAIN instances THEN InstDel(instances, name) ELSE instances
            /\ retired' = IF name \in DOMAIN instances
                          THEN [retired EXCEPT ![name] = @ \cup {instances[name]}]
                          ELSE retired
            /\ custom_provider_map' = SelectSeq(custom_provider_map, LAMBDA r : r.provider # name)
       ELSE UNCHANGED <<providers, instances, retired, custom_provider_map>>

\* unregister() that empties the whole instance mapping.
UnregisterClearsInstances(name) ==
    /\ UNCHANGED <<thrVars, held, app, local, got>>
    /\ UNCHANGED <<custom_provider_map, LITELLM_AVAILABLE, nextId>>
    /\ call' = Done("unregister", name, "-", "ok", None, <<>>)
    /\ IF name \in Keys(providers)
       THEN /\ providers' = DictDel(providers, name)
            /\ instances' = <<>>
            /\ retired' = IF name \in DOMAIN instances
                          THEN [retired EXCEPT ![name] = @ \cup {instances[name]}]
                          ELSE retired
       ELSE UNCHANGED <<providers, instances, retired>>

\* unregister(provider_name)
Unregister(name) ==
    /\ UNCHANGED <<thrVars, held, app, local, got>>
    /\ UNCHANGED <<custom_provider_map, LITELLM_AVAILABLE, nextId>>
    /\ call' = Done("unregister", name, "-", "ok", None, <<>>)
    /\ IF name \in Keys(providers)
       THEN /\ providers' = DictDel(providers, name)
            /\ instances' = IF name \in DOMAIN instances THEN InstDel(instances, name) ELSE instances
            /\ retired' = IF name \in DOMAIN instances
                          THEN [retired EXCEPT ![name] = @ \cup {instances[name]}]
                          ELSE retired
       ELSE UNCHANGED <<providers, instances, retired>>

\* get_provider() without the "not in self._instances" test: constructs on every call.
GetProviderAlwaysConstructs(name) ==
    /\ UNCHANGED <<thrVars, held, app, local, got>>
    /\ UNCHANGED <<providers, custom_provider_map, LITELLM_AVAILABLE, retired>>
    /\ IF name \in Keys(providers)
       THEN IF CtorRaises(Lookup(providers, name))
            THEN /\ call' = Done("get_provider", name, "-", "CtorError", None, <<>>)
                 /\ UNCHANGED <<instances, nextId>>
            ELSE /\ Constructed(nextId) < MaxObjects
                 /\ instances' = InstSet(instances, name, NewObject(name, nextId[name], Lookup(providers, name)))
                 /\ nextId' = Bump(nextId, name)
                 /\ call' = Done("get_provider", name, "-", "ok", InstGet(instances', name), <<>>)
       ELSE /\ UNCHANGED <<instances, nextId>>
            /\ call' = Done("get_provider", name, "-", "ok", InstGet(instances, name), <<>>)

\* get_provider() without the "in self._providers" test: the class lookup raises KeyError.
GetProviderNoRegisteredCheck(name) ==
    /\ UNCHANGED <<thrVars, held, app, local, got>>
    /\ UNCHANGED <<providers, custom_provider_map, LITELLM_AVAILABLE, retired>>
    /\ IF name \notin DOMAIN instances
       THEN IF name \notin Keys(providers)
            THEN /\ call' = Done("get_provider", name, "-", "KeyError", None, <<>>)
                 /\ UNCHANGED <<instances, nextId>>
            ELSE IF CtorRaises(Lookup(providers, name))
            THEN /\ call' = Done("get_provider", name, "-", "CtorError", None, <<>>)
                 /\ UNCHANGED <<instances, nextId>>
            ELSE /\ Constructed(nextId) < MaxObjects
                 /\ instances' = InstSet(instances, name, NewObject(name, nextId[name], Lookup(providers, name)))
                 /\ nextId' = Bump(nextId, name)
                 /\ call' = Done("get_provider", name, "-", "ok", InstGet(instances', name), <<>>)
       ELSE /\ UNCHANGED <<instances, nextId>>
            /\ call' = Done("get_provider", name, "-", "ok", InstGet(instances, name), <<>>)

\* get_provider(provider_name)
GetProvider(name) ==
    /\ UNCHANGED <<thrVars, held, app, local, got>>
    /\ UNCHANGED <<providers, custom_provider_map, LITELLM_AVAILABLE, retired>>
    /\ IF name \notin DOMAIN instances /\ name \in Keys(providers)
       THEN IF CtorRaises(Lookup(providers, name))
            THEN /\ call' = Done("get_provider", name, "-", "CtorError", None, <<>>)
                 /\ UNCHANGED <<instances, nextId>>
            ELSE /\ Constructed(nextId) < MaxObjects
                 /\ instances' = InstSet(instances, name, NewObject(name, nextId[name], Lookup(providers, name)))
                 /\ nextId' = Bump(nextId, name)
                 /\ call' = Done("get_provider", name, "-", "ok", InstGet(instances', name), <<>>)
       ELSE /\ UNCHANGED <<instances, nextId>>
            /\ call' = Done("get_provider", name, "-", "ok", InstGet(instances, name), <<>>)

\* list_providers() that lists the instantiated names instead of the registered ones.
ListProvidersInstantiatedOnly ==
    /\ UNCHANGED <<thrVars, held, app, local, got>>
    /\ UNCHANGED <<providers, instances, custom_provider_map, LITELLM_AVAILABLE, nextId, retired>>
    /\ call' = Done("list_providers", "-", "-", "ok", None,
                    LET cached == SelectSeq(providers, LAMBDA e : e.name \in DOMAIN instances)
                    IN [i \in 1..Len(cached) |-> cached[i].name])

\* list_providers()
ListProviders ==
    /\ UNCHANGED <<thrVars, held, app, local, got>>
    /\ UNCHANGED <<providers, instances, custom_provider_map, LITELLM_AVAILABLE, nextId, retired>>
    /\ call' = Done("list_providers", "-", "-", "ok", None, ListProvidersResult(providers).items)

\* The loop body of initialize() without the "not in self._instances" test.
InitializeBodyAlwaysConstructs(st, n, T) ==
    IF CtorRaises(T)
    THEN [st EXCEPT !.outcome = "CtorError"]
    ELSE [instances |-> InstSet(st.instances, n, NewObject(n, st.nextId[n], T)),
          map |-> Append(st.map, Record(n, NewObject(n, st.nextId[n], T))),
          nextId |-> Bump(st.nextId, n),
          outcome |-> "ok"]

\* The loop body of initialize() that appends a record only for an instance it has
\* just constructed.
InitializeBodyAppendsOnlyNew(st, n, T) ==
    IF n \notin DOMAIN st.instances
    THEN IF CtorRaises(T)
         THEN [st EXCEPT !.outcome = "CtorError"]
         ELSE [instances |-> InstSet(st.instances, n, NewObject(n, st.nextId[n], T)),
               map |-> Append(st.map, Record(n, NewObject(n, st.nextId[n], T))),
               nextId |-> Bump(st.nextId, n),
               outcome |-> "ok"]
    ELSE st

\* One pass of the loop body of initialize() for the entry (n, T) of _providers;
\* st carries the instance mapping, the host table, the next object identity and
\* the outcome so far.
InitializeBody(st, n, T) ==
    IF n \notin DOMAIN st.instances
    THEN IF CtorRaises(T)
         THEN [st EXCEPT !.outcome = "CtorError"]
         ELSE [instances |-> InstSet(st.instances, n, NewObject(n, st.nextId[n], T)),
               map |-> Append(st.map, Record(n, NewObject(n, st.nextId[n], T))),
               nextId |-> Bump(st.nextId, n),
               outcome |-> "ok"]
    ELSE [st EXCEPT !.map = Append(@, Record(n, st.instances[n]))]

\* The loop of initialize() walking _providers from the last entry to the first.
RECURSIVE InitializeLoopReversed(_, _, _)
InitializeLoopReversed(items, i, st) ==
    IF i > Len(items) \/ st.outcome # "ok"
    THEN st
    ELSE InitializeLoopReversed(items, i + 1,
             InitializeBody(st, items[Len(items) + 1 - i].name, items[Len(items) + 1 - i].cls))

\* for provider_name, provider_class in self._providers.items(): ...
RECURSIVE InitializeLoop(_, _, _)
InitializeLoop(items, i, st) ==
    IF i > Len(items) \/ st.outcome # "ok"
    THEN st
    ELSE InitializeLoop(items, i + 1, InitializeBody(st, items[i].name, items[i].cls))

\* initialize() that tests LITELLM_AVAILABLE only when it reaches the host table:
\* the instances are constructed first.
InitializeLateImportCheck ==
    /\ UNCHANGED <<thrVars, held, app, local, got>>
    /\ UNCHANGED <<providers, LITELLM_AVAILABLE, retired>>
    /\ LET r == InitializeLoop(providers, 1,
                    [instances |-> instances, map |-> custom_provider_map,
                     nextId |-> nextId, outcome |-> "ok"])
       IN /\ Constructed(r.nextId) <= MaxObjects
          /\ instances' = r.instances
          /\ nextId' = r.nextId
          /\ IF ~LITELLM_AVAILABLE
             THEN /\ call' = Done("initialize", "-", "-", "ImportError", None, <<>>)
                  /\ UNCHANGED custom_provider_map
             ELSE /\ Len(r.map) <= MaxMapLen
                  /\ custom_provider_map' = r.map
                  /\ call' = Done("initialize", "-", "-", r.outcome, None, <<>>)

\* initialize()
Initialize ==
    /\ UNCHANGED <<thrVars, held, app, local, got>>
    /\ UNCHANGED <<providers, LITELLM_AVAILABLE, retired>>
    /\ IF ~LITELLM_AVAILABLE
       THEN /\ call' = Done("initialize", "-", "-", "ImportError", None, <<>>)
            /\ UNCHANGED <<instances, custom_provider_map, nextId>>
       ELSE LET r == InitializeLoop(providers, 1,
                        [instances |-> instances, map |-> custom_provider_map,
                         nextId |-> nextId, outcome |-> "ok"])
            IN /\ Constructed(r.nextId) <= MaxObjects
               /\ Len(r.map) <= MaxMapLen
               /\ instances' = r.instances
               /\ custom_provider_map' = r.map
               /\ nextId' = r.nextId
               /\ call' = Done("initialize", "-", "-", r.outcome, None, <<>>)

\* initialize_provider() without the "not in self._providers" guard: the class lookup
\* raises KeyError.
InitializeProviderNoNameCheck(name) ==
    /\ UNCHANGED <<thrVars, held, app, local, got>>
    /\ UNCHANGED <<providers, LITELLM_AVAILABLE, retired>>
    /\ IF ~LITELLM_AVAILABLE
       THEN /\ call' = Done("initialize_provider", name, "-", "ImportError", None, <<>>)
            /\ UNCHANGED <<instances, custom_provider_map, nextId>>
       ELSE IF name \notin Keys(providers)
       THEN /\ call' = Done("initialize_provider", name, "-", "KeyError", None, <<>>)
            /\ UNCHANGED <<instances, custom_provider_map, nextId>>
       ELSE IF name \notin DOMAIN instances /\ CtorRaises(Lookup(providers, name))
       THEN /\ call' = Done("initialize_provider", name, "-", "CtorError", None, <<>>)
            /\ UNCHANGED <<instances, custom_provider_map, nextId>>
       ELSE /\ Len(custom_provider_map) < MaxMapLen
            /\ IF name \notin DOMAIN instances
               THEN /\ Constructed(nextId) < MaxObjects
                    /\ instances' = InstSet(instances, name, NewObject(name, nextId[name], Lookup(providers, name)))
                    /\ nextId' = Bump(nextId, name)
               ELSE UNCHANGED <<instances, nextId>>
            /\ custom_provider_map' = Append(custom_provider_map, Record(name, instances'[name]))
            /\ call' = Done("initialize_provider", name, "-", "ok", None, <<>>)

\* initialize_provider() that runs the loop of initialize() over every registered name.
InitializeProviderAll(name) ==
    /\ UNCHANGED <<thrVars, held, app, local, got>>
    /\ UNCHANGED <<providers, LITELLM_AVAILABLE, retired>>
    /\ IF ~LITELLM_AVAILABLE
       THEN /\ call' = Done("initialize_provider", name, "-", "ImportError", None, <<>>)
            /\ UNCHANGED <<instances, custom_provider_map, nextId>>
       ELSE IF name \notin Keys(providers)
       THEN /\ call' = Done("initialize_provider", name, "-", "ValueError", None, <<>>)
            /\ UNCHANGED <<instances, custom_provider_map, nextId>>
       ELSE LET r == InitializeLoop(providers, 1,
                        [instances |-> instances, map |-> custom_provider_map,
                         nextId |-> nextId, outcome |-> "ok"])
            IN /\ Constructed(r.nextId) <= MaxObjects
               /\ Len(r.map) <= MaxMapLen
               /\ instances' = r.instances
               /\ custom_provider_map' = r.map
               /\ nextId' = r.nextId
               /\ call' = Done("initialize_provider", name, "-", r.outcome, None, <<>>)

\* initialize_provider(name) without the "not in self._instances" test.
InitializeProviderAlwaysConstructs(name) ==
    /\ UNCHANGED <<thrVars, held, app, local, got>>
    /\ UNCHANGED <<providers, LITELLM_AVAILABLE, retired>>
    /\ IF ~LITELLM_AVAILABLE
       THEN /\ call' = Done("initialize_provider", name, "-", "ImportError", None, <<>>)
            /\ UNCHANGED <<instances, custom_provider_map, nextId>>
       ELSE IF name \notin Keys(providers)
       THEN /\ call' = Done("initialize_provider", name, "-", "ValueError", None, <<>>)
            /\ UNCHANGED <<instances, custom_provider_map, nextId>>
       ELSE IF CtorRaises(Lookup(providers, name))
       THEN /\ call' = Done("initialize_provider", name, "-", "CtorError", None, <<>>)
            /\ UNCHANGED <<instances, custom_provider_map, nextId>>
       ELSE /\ Len(custom_provider_map) < MaxMapLen
            /\ Constructed(nextId) < MaxObjects
            /\ instances' = InstSet(instances, name, NewObject(name, nextId[name], Lookup(providers, name)))
            /\ nextId' = Bump(nextId, name)
            /\ custom_provider_map' = Append(custom_provider_map, Record(name, instances'[name]))
            /\ call' = Done("initialize_provider", name, "-", "ok", None, <<>>)

\* initialize_provider(provider_name)
InitializeProvider(name) ==
    /\ UNCHANGED <<thrVars, held, app, local, got>>
    /\ UNCHANGED <<providers, LITELLM_AVAILABLE, retired>>
    /\ IF ~LITELLM_AVAILABLE
       THEN /\ call' = Done("initialize_provider", name, "-", "ImportError", None, <<>>)
            /\ UNCHANGED <<instances, custom_provider_map, nextId>>
       ELSE IF name \notin Keys(providers)
       THEN /\ call' = Done("initialize_provider", name, "-", "ValueError", None, <<>>)
            /\ UNCHANGED <<instances, custom_provider_map, nextId>>
       ELSE IF name \notin DOMAIN instances /\ CtorRaises(Lookup(providers, name))
       THEN /\ call' = Done("initialize_provider", name, "-", "CtorError", None, <<>>)
            /\ UNCHANGED <<instances, custom_provider_map, nextId>>
       ELSE /\ Len(custom_provider_map) < MaxMapLen
            /\ IF name \notin DOMAIN instances
               THEN /\ Constructed(nextId) < MaxObjects
                    /\ instances' = InstSet(instances, name, NewObject(name, nextId[name], Lookup(providers, name)))
                    /\ nextId' = Bump(nextId, name)
               ELSE UNCHANGED <<instances, nextId>>
            /\ custom_provider_map' = Append(custom_provider_map, Record(name, instances'[name]))
            /\ call' = Done("initialize_provider", name, "-", "ok", None, <<>>)

Next ==
    \/ \E name \in Names, T \in ProviderTypes : Register(name, T)
    \/ \E name \in AllNames : Unregister(name)
    \/ \E name \in AllNames : GetProvider(name)
    \/ ListProviders
    \/ Initialize
    \/ \E name \in AllNames : InitializeProvider(name)

Spec == Init /\ [][Next]_vars

\* ---- get_provider and unregister run by threads, one bytecode-level step at a time ----
seqVars == <<custom_provider_map, LITELLM_AVAILABLE, held, app, local, got, call>>

\* Registry contents a completed sequence of register calls leaves behind.
Conforming == {U \in ProviderTypes : IsSubclassOfBase(U)}
Registered ==
    {<<>>} \cup
    {<<[name |-> n, cls |-> T]>> : n \in Names, T \in Conforming} \cup
    {d \in {<<[name |-> n, cls |-> T], [name |-> m, cls |-> V]>> :
                n \in Names, m \in Names, T \in Conforming, V \in Conforming} :
        d[1].name # d[2].name}

InitConc ==
    /\ providers \in Registered
    /\ instances = <<>>
    /\ custom_provider_map = <<>>
    /\ LITELLM_AVAILABLE = TRUE
    /\ nextId = [n \in Names |-> 1]
    /\ retired = [n \in AllNames |-> {}]
    /\ held = NoList
    /\ app = NoApp
    /\ local = NoRegistry
    /\ got = NothingGot
    /\ call = Done("__init__", "-", "-", "ok", None, <<>>)
    /\ pc = [t \in Threads |-> "idle"]
    /\ loc = [t \in Threads |-> Idle]

Goto(t, label) == pc' = [pc EXCEPT ![t] = label]
Finish(t, outcome, result) ==
    /\ pc' = [pc EXCEPT ![t] = "done"]
    /\ loc' = [loc EXCEPT ![t].outcome = outcome, ![t].result = result]

\* a thread enters get_provider(name) or unregister(name)
ThreadCall(t, op, name) ==
    /\ pc[t] \in {"idle", "done"}
    /\ pc' = [pc EXCEPT ![t] = IF op = "get_provider" THEN "g_test_instances" ELSE "u_test_providers"]
    /\ loc' = [loc EXCEPT ![t] = [Idle EXCEPT !.op = op, !.name = name]]
    /\ UNCHANGED <<providers, instances, nextId, retired, seqVars>>

\* if provider_name not in self._instances:
GetTestInstances(t) ==
    /\ pc[t] = "g_test_instances"
    /\ IF loc[t].name \notin DOMAIN instances
       THEN /\ Goto(t, "g_test_providers")
            /\ loc' = [loc EXCEPT ![t].sawMissing = TRUE]
       ELSE /\ Goto(t, "g_return")
            /\ UNCHANGED loc
    /\ UNCHANGED <<providers, instances, nextId, retired, seqVars>>

\* if provider_name in self._providers:
GetTestProviders(t) ==
    /\ pc[t] = "g_test_providers"
    /\ Goto(t, IF loc[t].name \in Keys(providers) THEN "g_load_class" ELSE "g_return")
    /\ UNCHANGED <<loc, providers, instances, nextId, retired, seqVars>>

\* self._providers[provider_name]
GetLoadClass(t) ==
    /\ pc[t] = "g_load_class"
    /\ IF loc[t].name \in Keys(providers)
       THEN /\ Goto(t, "g_construct")
            /\ loc' = [loc EXCEPT ![t].cls = Lookup(providers, loc[t].name)]
       ELSE Finish(t, "KeyError", None)
    /\ UNCHANGED <<providers, instances, nextId, retired, seqVars>>

\* ...()  the zero-argument constructor call
GetConstruct(t) ==
    /\ pc[t] = "g_construct"
    /\ IF CtorRaises(loc[t].cls)
       THEN /\ Finish(t, "CtorError", None)
            /\ UNCHANGED nextId
       ELSE /\ Constructed(nextId) < MaxObjects
            /\ Goto(t, "g_store")
            /\ loc' = [loc EXCEPT ![t].obj = NewObject(loc[t].name, nextId[loc[t].name], loc[t].cls)]
            /\ nextId' = Bump(nextId, loc[t].name)
    /\ UNCHANGED <<providers, instances, retired, seqVars>>

\* self._instances[provider_name] = ...
GetStore(t) ==
    /\ pc[t] = "g_store"
    /\ instances' = InstSet(instances, loc[t].name, loc[t].obj)
    /\ Goto(t, "g_return")
    /\ UNCHANGED <<loc, providers, nextId, retired, seqVars>>

\* return self._instances.get(provider_name)
GetReturn(t) ==
    /\ pc[t] = "g_return"
    /\ Finish(t, "ok", InstGet(instances, loc[t].name))
    /\ UNCHANGED <<providers, instances, nextId, retired, seqVars>>

\* if provider_name in self._providers:
UnregTestProviders(t) ==
    /\ pc[t] = "u_test_providers"
    /\ IF loc[t].name \in Keys(providers)
       THEN Goto(t, "u_del_provider") /\ UNCHANGED loc
       ELSE Finish(t, "ok", None)
    /\ UNCHANGED <<providers, instances, nextId, retired, seqVars>>

\* del self._providers[provider_name]
UnregDelProvider(t) ==
    /\ pc[t] = "u_del_provider"
    /\ IF loc[t].name \in Keys(providers)
       THEN /\ providers' = DictDel(providers, loc[t].name)
            /\ Goto(t, "u_test_instances")
            /\ UNCHANGED loc
       ELSE /\ Finish(t, "KeyError", None)
            /\ UNCHANGED providers
    /\ UNCHANGED <<instances, nextId, retired, seqVars>>

\* if provider_name in self._instances:
UnregTestInstances(t) ==
    /\ pc[t] = "u_test_instances"
    /\ IF loc[t].name \in DOMAIN instances
       THEN Goto(t, "u_del_instance") /\ UNCHANGED loc
       ELSE Finish(t, "ok", None)
    /\ UNCHANGED <<providers, instances, nextId, retired, seqVars>>

\* del self._instances[provider_name]
UnregDelInstance(t) ==
    /\ pc[t] = "u_del_instance"
    /\ IF loc[t].name \in DOMAIN instances
       THEN /\ instances' = InstDel(instances, loc[t].name)
            /\ retired' = [retired EXCEPT ![loc[t].name] = @ \cup {instances[loc[t].name]}]
            /\ Finish(t, "ok", None)
       ELSE /\ Finish(t, "KeyError", None)
            /\ UNCHANGED <<instances, retired>>
    /\ UNCHANGED <<providers, nextId, seqVars>>

NextConc ==
    \/ \E t \in Threads, op \in {"get_provider", "unregister"}, name \in Names : ThreadCall(t, op, name)
    \/ \E t \in Threads : GetTestInstances(t)
    \/ \E t \in Threads : GetTestProviders(t)
    \/ \E t \in Threads : GetLoadClass(t)
    \/ \E t \in Threads : GetConstruct(t)
    \/ \E t \in Threads : GetStore(t)
    \/ \E t \in Threads : GetReturn(t)
    \/ \E t \in Threads : UnregTestProviders(t)
    \/ \E t \in Threads : UnregDelProvider(t)
    \/ \E t \in Threads : UnregTestInstances(t)
    \/ \E t \in Threads : UnregDelInstance(t)

SpecConc == InitConc /\ [][NextConc]_vars

\* ---- a caller that keeps the list list_providers() returned and changes it ----
FakeNames == {"fake_provider"}
\* The classes this caller registers: one that is accepted and one that is rejected.
ListTypes == {"TestProviderA", "NotAProvider"}
Elements(q) == {q[i] : i \in 1..Len(q)}
Reverse(q) == [i \in 1..Len(q) |-> q[Len(q) + 1 - i]]
RECURSIVE RemoveFirst(_, _)
RemoveFirst(q, x) ==
    IF q = <<>> THEN <<>>
    ELSE IF Head(q) = x THEN Tail(q)
    ELSE <<Head(q)>> \o RemoveFirst(Tail(q), x)

heldFrame == <<providers, instances, custom_provider_map, LITELLM_AVAILABLE, nextId, retired, app, local,
               got, call>>

\* providers = registry.list_providers()
KeepList ==
    /\ UNCHANGED <<thrVars, app, local, got>>
    /\ UNCHANGED <<providers, instances, custom_provider_map, LITELLM_AVAILABLE, nextId, retired>>
    /\ call' = Done("list_providers", "-", "-", "ok", None, ListProvidersResult(providers).items)
    /\ held' = ListProvidersResult(providers)

\* providers.append(x); a key view has no append, remove or reverse
HeldAppend(x) ==
    /\ held.kind = "list"
    /\ Len(held.items) < MaxHeldLen
    /\ held' = [held EXCEPT !.items = Append(@, x)]
    /\ UNCHANGED <<thrVars, heldFrame>>

\* providers.remove(x)
HeldRemove(x) ==
    /\ held.kind = "list"
    /\ x \in Elements(held.items)
    /\ held' = [held EXCEPT !.items = RemoveFirst(@, x)]
    /\ UNCHANGED <<thrVars, heldFrame>>

\* providers.reverse()
HeldReverse ==
    /\ held.kind = "list"
    /\ held' = [held EXCEPT !.items = Reverse(@)]
    /\ UNCHANGED <<thrVars, heldFrame>>

NextList ==
    \/ \E name \in Names, T \in ListTypes : Register(name, T)
    \/ \E name \in Names : Unregister(name)
    \/ \E name \in Names \cup FakeNames : GetProvider(name)
    \/ ListProviders
    \/ Initialize
    \/ KeepList
    \/ \E x \in FakeNames : HeldAppend(x)
    \/ \E x \in Names \cup FakeNames : HeldRemove(x)
    \/ HeldReverse

\* The integration is importable, so that initialize() reaches its loop.
InitList == Init /\ LITELLM_AVAILABLE

SpecList == InitList /\ [][NextList]_vars

\* ---- BaseCustomProvider: the operations a subclass does not override ----
SyncOps == {"completion", "streaming", "image_generation", "embedding"}
CoroutineOps == {"acompletion", "aimage_generation", "aembedding"}
AsyncGeneratorOps == {"astreaming"}
CapabilityOps == SyncOps \cup CoroutineOps \cup AsyncGeneratorOps
\* the operations that take messages, api_base and custom_llm_provider
TextOps == {"completion", "streaming", "acompletion", "astreaming"}

BaseModels == {"test-model", "dall-e-3"}
BaseInputs == {"", "Hello, how are you?", "A test image"}
BaseApiBases == {"None", "https://api.example.com/v1"}

NotImplementedMessage(op) ==
    IF op = "completion"
    THEN "completion() must be implemented"
    ELSE op \o "() not implemented for this provider"

\* A body that does nothing and returns None for the embedding operations.
BaseBodySilentEmbedding(op) ==
    IF op \in {"embedding", "aembedding"}
    THEN [stage |-> "finished", outcome |-> "ok", msg |-> "-", value |-> "None"]
    ELSE [stage |-> "finished", outcome |-> "NotImplementedError",
          msg |-> NotImplementedMessage(op), value |-> "-"]

\* Running the body of the operation: its only statement is the raise.
BaseBody(op) ==
    [stage |-> "finished", outcome |-> "NotImplementedError",
     msg |-> NotImplementedMessage(op), value |-> "-"]

\* What the call expression itself does: a def runs its body, an async def returns a
\* coroutine, an async def with a yield returns an async generator; neither has run
\* any of the body yet.
BaseCallResult(op) ==
    IF op \in SyncOps THEN BaseBody(op)
    ELSE IF op \in CoroutineOps
    THEN [stage |-> "coroutine", outcome |-> "-", msg |-> "-", value |-> "-"]
    ELSE [stage |-> "async_generator", outcome |-> "-", msg |-> "-", value |-> "-"]

baseFrame == <<providers, instances, custom_provider_map, LITELLM_AVAILABLE, nextId, retired, held,
               local, got, call, pc, loc>>

\* provider.<op>(model, ...)
BaseCall(op, model, input, api_base) ==
    /\ app' = [fn |-> op, model |-> model, input |-> input, api_base |-> api_base,
               run |-> BaseCallResult(op)]
    /\ UNCHANGED baseFrame

\* await <coroutine>
BaseAwait ==
    /\ app.fn \in CoroutineOps
    /\ app.run.stage = "coroutine"
    /\ app' = [app EXCEPT !.run = BaseBody(app.fn)]
    /\ UNCHANGED baseFrame

\* async for _ in <async generator>: the first __anext__()
BaseAdvance ==
    /\ app.fn \in AsyncGeneratorOps
    /\ app.run.stage = "async_generator"
    /\ app' = [app EXCEPT !.run = BaseBody(app.fn)]
    /\ UNCHANGED baseFrame

NextBase ==
    \/ \E op \in TextOps, model \in BaseModels, input \in BaseInputs, api_base \in BaseApiBases :
          BaseCall(op, model, input, api_base)
    \/ \E op \in CapabilityOps \ TextOps, model \in BaseModels, input \in BaseInputs :
          BaseCall(op, model, input, "-")
    \/ BaseAwait
    \/ BaseAdvance

SpecBase == Init /\ [][NextBase]_vars

\* ---- EchoProvider.completion ----
\* A message is a dict: a function from some of the keys "role" and "content".
EchoRoles == {"user", "assistant"}
EchoContents == {"", "Hello", "Second message"}
MessageDicts ==
    {[role |-> r, content |-> c] : r \in EchoRoles, c \in EchoContents}
        \cup {[role |-> r] : r \in EchoRoles}
        \cup {[content |-> c] : c \in {"Hello"}}
        \cup {<<>>}
MessageLists == UNION {[1..n -> MessageDicts] : n \in 0..MaxMessages}
EchoModels == {"echo/test", "echo/model"}
EchoApiBases == {"None", "https://api1.example.com"}

\* msg.get(key, default)
DictGet(msg, key, default) == IF key \in DOMAIN msg THEN msg[key] ELSE default

\* The loop that takes the content of the first message whose role is "user".
RECURSIVE FirstUserMessage(_, _)
FirstUserMessage(messages, i) ==
    IF i = 0 \/ messages = <<>> THEN ""
    ELSE IF DictGet(Head(messages), "role", "None") = "user"
    THEN DictGet(Head(messages), "content", "")
    ELSE FirstUserMessage(Tail(messages), i - 1)

\* user_message = ""; for msg in reversed(messages): if msg.get("role") == "user":
\* user_message = msg.get("content", ""); break  -- i is the index looked at next
RECURSIVE LastUserMessage(_, _)
LastUserMessage(messages, i) ==
    IF i = 0 THEN ""
    ELSE IF DictGet(messages[i], "role", "None") = "user"
    THEN DictGet(messages[i], "content", "")
    ELSE LastUserMessage(messages, i - 1)

\* The response: a dict when the litellm types cannot be imported, a ModelResponse
\* otherwise; both carry the same content, role and model.
EchoResponse(model, messages, available) ==
    [form |-> IF available THEN "ModelResponse" ELSE "dict",
     role |-> "assistant",
     content |-> "Echo: " \o LastUserMessage(messages, Len(messages)),
     model |-> model]

\* A call that has its arguments and has not run yet.
Pending == [form |-> "pending"]

\* The arguments of one call provider.completion(model, messages, api_base=...)
InitEcho ==
    /\ InitExceptApp
    /\ app \in {[fn |-> "EchoProvider.completion", model |-> model, messages |-> messages,
                  api_base |-> api_base, response |-> Pending] :
                     model \in EchoModels, messages \in MessageLists, api_base \in EchoApiBases}

\* provider.completion(model, messages, api_base)
EchoCompletion ==
    /\ app.fn = "EchoProvider.completion"
    /\ app.response = Pending
    /\ app' = [app EXCEPT !.response = EchoResponse(app.model, app.messages, LITELLM_AVAILABLE)]
    /\ UNCHANGED baseFrame

NextEcho == EchoCompletion

SpecEcho == InitEcho /\ [][NextEcho]_vars

\* ---- MockAPIProvider.completion ----
\* Python's None among strings.
PyNone == "<None>"
\* bool(x) for a string or None
Truthy(x) == x \notin {PyNone, ""}
ApiKeys == {PyNone, "", "provided-key"}
DefaultApiKeys == {PyNone, "", "default-key"}
MockModels == {"mock_api/gpt-mock", "mock_api/other"}
MockMessageLists ==
    {<<>>, <<[role |-> "user", content |-> "Test"]>>,
     <<[role |-> "system", content |-> "Be brief."], [role |-> "user", content |-> "Hello!"]>>}

\* self.default_api_key or api_key: the default wins over the argument.
UsedApiKeyDefaultFirst(api_key, default_api_key) ==
    IF Truthy(default_api_key) THEN default_api_key ELSE api_key

\* used_api_key = api_key or self.default_api_key
UsedApiKey(api_key, default_api_key) ==
    IF Truthy(api_key) THEN api_key ELSE default_api_key

\* _generate_mock_response(user_message, 0.7, 100): temperature and max_tokens are
\* not passed, their defaults apply, and the text stays under 100 words.
MockResponseContent(user_message) ==
    "This is a mock API response to: '" \o user_message \o "'. Temperature: 0.7, Max tokens: 100."

\* One call provider.completion(model, messages, api_key=...) on
\* MockAPIProvider(default_api_key=...), not yet run.
InitMock ==
    /\ InitExceptApp
    /\ app \in {[fn |-> "MockAPIProvider.completion", model |-> model, messages |-> messages,
                  api_key |-> api_key, default_api_key |-> default_api_key,
                  stage |-> "called", used |-> PyNone, outcome |-> "-", response |-> Pending] :
                     model \in MockModels, messages \in MockMessageLists,
                     api_key \in ApiKeys, default_api_key \in DefaultApiKeys}

\* used_api_key = ...; if not used_api_key: raise ValueError("API key is required. ...")
MockCheckKey ==
    /\ app.fn = "MockAPIProvider.completion"
    /\ app.stage = "called"
    /\ LET used == UsedApiKey(app.api_key, app.default_api_key)
       IN app' = IF ~Truthy(used)
                 THEN [app EXCEPT !.stage = "raised", !.used = used, !.outcome = "ValueError"]
                 ELSE [app EXCEPT !.stage = "keyed", !.used = used]
    /\ UNCHANGED baseFrame

\* the rest of completion(): the last user message, the mock text, the response
MockRespond ==
    /\ app.fn = "MockAPIProvider.completion"
    /\ app.stage = "keyed"
    /\ app' = [app EXCEPT
                 !.stage = "returned",
                 !.outcome = "ok",
                 !.response = [form |-> IF LITELLM_AVAILABLE THEN "ModelResponse" ELSE "dict",
                               role |-> "assistant",
                               content |-> MockResponseContent(
                                               LastUserMessage(app.messages, Len(app.messages))),
                               model |-> app.model]]
    /\ UNCHANGED baseFrame

NextMock ==
    \/ MockCheckKey
    \/ MockRespond

SpecMock == InitMock /\ [][NextMock]_vars

\* ---- ContentFilter.async_post_call_success_hook ----
\* A string is a sequence of characters; "E" is a character of the replacement text.
FilterChars == {"a", "E"}
Filtered == <<"[", "F", "I", "L", "T", "E", "R", "E", "D", "]">>
Strings(maxLen) == UNION {[1..n -> FilterChars] : n \in 0..maxLen}
\* blocked words are not empty
WordLists == UNION {[1..n -> Strings(MaxWordLen) \ {<<>>}] : n \in 0..MaxWords}

\* old in s
Contains(s, old) ==
    \E i \in 0..(Len(s) - Len(old)) : SubSeq(s, i + 1, i + Len(old)) = old

\* s.replace(old, new): every occurrence found scanning from the left, the scan
\* going on after the occurrence; the empty string occurs before every character
\* and at the end.
RECURSIVE StrReplace(_, _, _)
StrReplace(s, old, new) ==
    IF old = <<>>
    THEN IF s = <<>> THEN new ELSE new \o <<Head(s)>> \o StrReplace(Tail(s), old, new)
    ELSE IF Len(s) < Len(old) THEN s
    ELSE IF SubSeq(s, 1, Len(old)) = old
    THEN new \o StrReplace(SubSeq(s, Len(old) + 1, Len(s)), old, new)
    ELSE <<Head(s)>> \o StrReplace(Tail(s), old, new)

\* for word in self.blocked_words: content = content.replace(word, "[FILTERED]")
RECURSIVE FilterWords(_, _)
FilterWords(content, words) ==
    IF words = <<>> THEN content
    ELSE FilterWords(StrReplace(content, Head(words), Filtered), Tail(words))

\* One call of the hook of ContentFilter(blocked_words) on a response whose first
\* choice has the content, not yet run.
InitFilter ==
    /\ InitExceptApp
    /\ app \in {[fn |-> "ContentFilter.async_post_call_success_hook", blocked_words |-> words,
                  content |-> content, stage |-> "called", result |-> content] :
                     words \in WordLists, content \in Strings(MaxContentLen)}

\* await logger.async_post_call_success_hook(data, user_api_key_dict, response)
FilterHook ==
    /\ app.fn = "ContentFilter.async_post_call_success_hook"
    /\ app.stage = "called"
    /\ app' = [app EXCEPT !.stage = "returned",
                          !.result = IF app.content # <<>>
                                     THEN FilterWords(app.content, app.blocked_words)
                                     ELSE app.content]
    /\ UNCHANGED baseFrame

NextFilter == FilterHook

SpecFilter == InitFilter /\ [][NextFilter]_vars

\* ---- the process-wide registry and its free functions ----
\* _global_registry = PluginRegistry(): the object whose state is providers,
\* instances; LocalRegistry is the object whose state is local.
GlobalRegistry == "global"
LocalRegistry == "local"
\* The class the callers of the free functions register.
GlobalTypes == {"TestProviderA"}

StateOf(r) ==
    IF r = GlobalRegistry
    THEN [providers |-> providers, instances |-> instances]
    ELSE [providers |-> local.providers, instances |-> local.instances]

\* The assignments of a method to self._providers and self._instances of object r.
Store(r, st) ==
    IF r = GlobalRegistry
    THEN /\ providers' = st.providers
         /\ instances' = st.instances
         /\ UNCHANGED local
    ELSE /\ local' = [local EXCEPT !.providers = st.providers, !.instances = st.instances]
         /\ UNCHANGED <<providers, instances>>

globalFrame == <<LITELLM_AVAILABLE, retired, held, app, call, pc, loc>>

Got(via, r, name, outcome, result, listing) ==
    [got EXCEPT !.via = via, !.target = r, !.name = name, !.outcome = outcome,
                !.result = result, !.listing = listing]

\* r.register(name, T)
MethodRegister(r, name, T, via) ==
    LET st == StateOf(r)
    IN /\ IF name \in Keys(st.providers)
          THEN /\ Store(r, st)
               /\ got' = Got(via, r, name, "ValueError", None, <<>>)
          ELSE IF ~IsSubclassOfBase(T)
          THEN /\ Store(r, st)
               /\ got' = Got(via, r, name, "TypeError", None, <<>>)
          ELSE /\ Store(r, [st EXCEPT !.providers = DictSet(@, name, T)])
               /\ got' = Got(via, r, name, "ok", None, <<>>)
       /\ UNCHANGED <<custom_provider_map, nextId, globalFrame>>

\* r.unregister(name)
MethodUnregister(r, name, via) ==
    LET st == StateOf(r)
    IN /\ IF name \in Keys(st.providers)
          THEN Store(r, [providers |-> DictDel(st.providers, name),
                         instances |-> IF name \in DOMAIN st.instances
                                       THEN InstDel(st.instances, name) ELSE st.instances])
          ELSE Store(r, st)
       /\ got' = Got(via, r, name, "ok", None, <<>>)
       /\ UNCHANGED <<custom_provider_map, nextId, globalFrame>>

\* r.get_provider(name)
MethodGetProvider(r, name, via) ==
    LET st == StateOf(r)
    IN /\ IF name \notin DOMAIN st.instances /\ name \in Keys(st.providers)
          THEN IF CtorRaises(Lookup(st.providers, name))
               THEN /\ Store(r, st)
                    /\ UNCHANGED nextId
                    /\ got' = Got(via, r, name, "CtorError", None, <<>>)
               ELSE LET obj == NewObject(name, nextId[name], Lookup(st.providers, name))
                    IN /\ Constructed(nextId) < MaxObjects
                       /\ Store(r, [st EXCEPT !.instances = InstSet(@, name, obj)])
                       /\ nextId' = Bump(nextId, name)
                       /\ got' = Got(via, r, name, "ok", obj, <<>>)
          ELSE /\ Store(r, st)
               /\ UNCHANGED nextId
               /\ got' = Got(via, r, name, "ok", InstGet(st.instances, name), <<>>)
       /\ UNCHANGED <<custom_provider_map, globalFrame>>

\* r.list_providers()
MethodListProviders(r, via) ==
    /\ Store(r, StateOf(r))
    /\ got' = Got(via, r, "-", "ok", None, ListProvidersResult(StateOf(r).providers).items)
    /\ UNCHANGED <<custom_provider_map, nextId, globalFrame>>

\* r.initialize()
MethodInitialize(r, via) ==
    LET st == StateOf(r)
        res == InitializeLoop(st.providers, 1,
                   [instances |-> st.instances, map |-> custom_provider_map,
                    nextId |-> nextId, outcome |-> "ok"])
    IN /\ IF ~LITELLM_AVAILABLE
          THEN /\ Store(r, st)
               /\ UNCHANGED <<custom_provider_map, nextId>>
               /\ got' = Got(via, r, "-", "ImportError", None, <<>>)
          ELSE /\ Constructed(res.nextId) <= MaxObjects
               /\ Len(res.map) <= MaxMapLen
               /\ Store(r, [st EXCEPT !.instances = res.instances])
               /\ custom_provider_map' = res.map
               /\ nextId' = res.nextId
               /\ got' = Got(via, r, "-", res.outcome, None, <<>>)
       /\ UNCHANGED globalFrame

\* get_registry() that returns another PluginRegistry object than _global_registry.
GetRegistryOther ==
    /\ got' = [Got("get_registry", "-", "-", "ok", None, <<>>)
                  EXCEPT !.before = got.registry, !.registry = LocalRegistry]
    /\ UNCHANGED <<providers, instances, local, custom_provider_map, nextId, globalFrame>>

\* get_registry(): return _global_registry
GetRegistry ==
    /\ got' = [Got("get_registry", "-", "-", "ok", None, <<>>)
                  EXCEPT !.before = got.registry, !.registry = GlobalRegistry]
    /\ UNCHANGED <<providers, instances, local, custom_provider_map, nextId, globalFrame>>

\* register_provider(name, T): _global_registry.register(name, T)
RegisterProvider(name, T) == MethodRegister(GlobalRegistry, name, T, "register_provider")

\* get_provider(name): return _global_registry.get_provider(name)
ModuleGetProvider(name) == MethodGetProvider(GlobalRegistry, name, "get_provider")

\* initialize_plugins(): _global_registry.initialize()
InitializePlugins == MethodInitialize(GlobalRegistry, "initialize_plugins")

\* registry = get_registry(); ...; registry.list_providers()
RegistryListProviders ==
    /\ got.registry # "-"
    /\ MethodListProviders(got.registry, "registry.list_providers")

\* registry.get_provider(name)
RegistryGetProvider(name) ==
    /\ got.registry # "-"
    /\ MethodGetProvider(got.registry, name, "registry.get_provider")

\* registry.unregister(name)
RegistryUnregister(name) ==
    /\ got.registry # "-"
    /\ MethodUnregister(got.registry, name, "registry.unregister")

\* registry = PluginRegistry()
NewRegistry ==
    /\ ~local.made
    /\ local' = [made |-> TRUE, providers |-> <<>>, instances |-> <<>>]
    /\ got' = Got("PluginRegistry", LocalRegistry, "-", "ok", None, <<>>)
    /\ UNCHANGED <<providers, instances, custom_provider_map, nextId, globalFrame>>

\* methods called on the separately constructed registry
LocalRegister(name, T) ==
    /\ local.made
    /\ MethodRegister(LocalRegistry, name, T, "local.register")

LocalGetProvider(name) ==
    /\ local.made
    /\ MethodGetProvider(LocalRegistry, name, "local.get_provider")

NextGlobal ==
    \/ GetRegistry
    \/ \E name \in Names, T \in GlobalTypes : RegisterProvider(name, T)
    \/ \E name \in Names : ModuleGetProvider(name)
    \/ InitializePlugins
    \/ RegistryListProviders
    \/ \E name \in Names : RegistryGetProvider(name)
    \/ \E name \in Names : RegistryUnregister(name)
    \/ NewRegistry
    \/ \E name \in Names, T \in GlobalTypes : LocalRegister(name, T)
    \/ \E name \in Names : LocalGetProvider(name)

\* The integration is importable (the test patches LITELLM_AVAILABLE to True).
InitGlobal == Init /\ LITELLM_AVAILABLE

SpecGlobal == InitGlobal /\ [][NextGlobal]_vars

\* ---- properties ----
regState == <<providers, instances, custom_provider_map>>
IsCall(c, op) == c.op = op
Appended == SubSeq(custom_provider_map', Len(custom_provider_map) + 1, Len(custom_provider_map'))

\* C1: in every reachable state each name that has a cached instance is a registered
\* name: keys(_instances) is a subset of keys(_providers).
InstancesSubsetOfProviders == DOMAIN instances \subseteq Keys(providers)

\* an unregister removed a cached name while another name still has its instance
InstancesSubsetOfProvidersWitness ==
    /\ IsCall(call, "unregister")
    /\ retired[call.name] # {}
    /\ DOMAIN instances # {}

\* C2: register(name, T) on an already registered name raises the duplicate-name
\* ValueError and leaves the type mapping, the instance mapping and the host table
\* as they were; a get_provider(name) that follows returns an instance of the type
\* stored first (the cached one if there was one).
DuplicateRegisterRejected ==
    [][/\ (IsCall(call', "register") /\ call'.name \in Keys(providers))
            => (call'.outcome = "ValueError" /\ UNCHANGED regState)
       /\ (/\ IsCall(call, "register") /\ call.outcome = "ValueError"
           /\ IsCall(call', "get_provider") /\ call'.name = call.name /\ call'.outcome = "ok")
            => /\ call'.result.cls = Lookup(providers, call.name)
               /\ call.name \in DOMAIN instances => call'.result = instances[call.name]
      ]_vars

\* a duplicate register with a different type was rejected for a name with a cached instance
DuplicateRegisterRejectedWitness ==
    /\ IsCall(call, "register")
    /\ call.outcome = "ValueError"
    /\ call.name \in DOMAIN instances
    /\ IsSubclassOfBase(call.cls)
    /\ call.cls # Lookup(providers, call.name)

\* C3: register(name, type) with an unregistered name and a type that is not a
\* subclass of BaseCustomProvider raises TypeError and changes neither mapping nor
\* the host table; the same name can be registered afterwards with a conforming type.
NonConformingRegisterRejected ==
    [][/\ (IsCall(call', "register") /\ call'.name \notin Keys(providers)
                /\ ~IsSubclassOfBase(call'.cls))
            => (call'.outcome = "TypeError" /\ UNCHANGED regState)
       /\ (/\ IsCall(call, "register") /\ call.outcome = "TypeError"
           /\ IsCall(call', "register") /\ call'.name = call.name
           /\ IsSubclassOfBase(call'.cls))
            => /\ call'.outcome = "ok"
               /\ call'.name \in Keys(providers')
               /\ Lookup(providers', call'.name) = call'.cls
      ]_vars

\* a non-conforming type was rejected while another name is registered
NonConformingRegisterRejectedWitness ==
    /\ IsCall(call, "register")
    /\ call.outcome = "TypeError"
    /\ call.name \notin Keys(providers)
    /\ Len(providers) > 0

\* C4: a cached instance stays cached, unchanged, across every call except
\* unregister of its own name, and get_provider(name) returns exactly that object.
SingletonStable ==
    [][/\ \A n \in DOMAIN instances :
              ~(IsCall(call', "unregister") /\ call'.name = n)
                  => (n \in DOMAIN instances' /\ instances'[n] = instances[n])
       /\ (IsCall(call', "get_provider") /\ call'.name \in DOMAIN instances)
            => (call'.outcome = "ok" /\ call'.result = instances[call'.name])
      ]_vars

\* get_provider returned the cached instance of a name while the other name, registered
\* and instantiated as well, has since been unregistered
SingletonStableWitness ==
    /\ IsCall(call, "get_provider")
    /\ call.outcome = "ok"
    /\ call.result # None
    /\ instances[call.name] = call.result
    /\ \E m \in Names \ {call.name} : retired[m] # {}

\* C5: unregister(name) on a registered name removes the name from both mappings in
\* the one call, whether or not an instance existed; a get_provider(name) that
\* follows returns None.
UnregisterRemovesBoth ==
    [][/\ (IsCall(call', "unregister") /\ call'.name \in Keys(providers))
            => /\ call'.outcome = "ok"
               /\ call'.name \notin Keys(providers')
               /\ call'.name \notin DOMAIN instances'
               /\ Len(providers') = Len(providers) - 1
       /\ (/\ IsCall(call, "unregister")
           /\ IsCall(call', "get_provider") /\ call'.name = call.name)
            => (call'.outcome = "ok" /\ call'.result = None)
      ]_vars

\* an unregister removed a name whose instance had been created
UnregisterRemovesBothWitness ==
    /\ IsCall(call, "unregister")
    /\ retired[call.name] # {}
    /\ call.name \notin Keys(providers)
    /\ call.name \notin DOMAIN instances

\* C6: get_provider(name) never returns an instance that was cached for name when
\* name was unregistered, and the first get_provider(name) after a successful
\* register(name, T) constructs a fresh object.
ReRegisterGivesFreshInstance ==
    [][/\ (IsCall(call', "get_provider") /\ call'.outcome = "ok")
            => call'.result \notin retired[call'.name]
       /\ (/\ IsCall(call, "register") /\ call.outcome = "ok"
           /\ IsCall(call', "get_provider") /\ call'.name = call.name /\ call'.outcome = "ok")
            => /\ call'.result = NewObject(call.name, nextId[call.name], call.cls)
               /\ nextId' = Bump(nextId, call.name)
      ]_vars

\* get_provider returned an instance for a name that had an earlier instance retired
ReRegisterGivesFreshInstanceWitness ==
    /\ IsCall(call, "get_provider")
    /\ call.outcome = "ok"
    /\ call.result # None
    /\ retired[call.name] # {}

\* C7: with integration available, an initialize() that returns appends exactly one
\* record per registered name (N records for N names, none for N = 0); each record's
\* custom_handler is the instance cached for its name after the call, and the one
\* cached before the call when there was one.  With no registered name the call
\* returns without error.
InitializeAppendsOnePerName ==
    [][/\ (IsCall(call', "initialize") /\ call'.outcome = "ok")
            => /\ LITELLM_AVAILABLE
               /\ Len(custom_provider_map') = Len(custom_provider_map) + Len(providers)
               /\ SubSeq(custom_provider_map', 1, Len(custom_provider_map)) = custom_provider_map
               /\ \A n \in Keys(providers) :
                      Cardinality({i \in 1..Len(Appended) : Appended[i].provider = n}) = 1
               /\ \A i \in 1..Len(Appended) :
                      /\ Appended[i].provider \in DOMAIN instances'
                      /\ Appended[i].custom_handler = instances'[Appended[i].provider]
                      /\ Appended[i].provider \in DOMAIN instances
                            => Appended[i].custom_handler = instances[Appended[i].provider]
       /\ (IsCall(call', "initialize") /\ LITELLM_AVAILABLE /\ Len(providers) = 0)
            => (call'.outcome = "ok" /\ UNCHANGED regState)
      ]_vars

\* initialize() returned on a registry with two names of different classes and the
\* host table holds an instance of each
InitializeAppendsOnePerNameWitness ==
    /\ IsCall(call, "initialize")
    /\ call.outcome = "ok"
    /\ Len(providers) = 2
    /\ providers[1].cls # providers[2].cls
    /\ Len(custom_provider_map) >= 2
    /\ {custom_provider_map[i].custom_handler : i \in 1..Len(custom_provider_map)}
          = {instances[n] : n \in Names}

\* C8: whenever register, unregister, initialize or initialize_provider raises, the
\* type mapping, the instance mapping and the host table are as before the call.
NoPartialMutationOnFailure ==
    [][(call'.op \in {"register", "unregister", "initialize", "initialize_provider"}
            /\ call'.outcome # "ok")
          => UNCHANGED regState]_vars

\* C9: two threads that both entered get_provider(name) while name had no instance
\* receive the same object.
ConcurrentCallersSameObject ==
    \A t \in Threads, u \in Threads :
        (/\ t # u
         /\ pc[t] = "done" /\ pc[u] = "done"
         /\ loc[t].op = "get_provider" /\ loc[u].op = "get_provider"
         /\ loc[t].name = loc[u].name
         /\ loc[t].sawMissing /\ loc[u].sawMissing
         /\ loc[t].outcome = "ok" /\ loc[u].outcome = "ok"
         /\ loc[t].result # None /\ loc[u].result # None)
        => loc[t].result = loc[u].result

\* C10: get_provider(name) for a name that is not registered returns None without
\* raising and leaves both mappings and the host table unchanged.
UnknownNameGivesNone ==
    [][(IsCall(call', "get_provider") /\ call'.name \notin Keys(providers))
          => (call'.outcome = "ok" /\ call'.result = None /\ UNCHANGED regState)]_vars

\* get_provider returned None for a name that was registered, instantiated and unregistered
UnknownNameGivesNoneWitness ==
    /\ IsCall(call, "get_provider")
    /\ call.outcome = "ok"
    /\ call.result = None
    /\ call.name \notin Keys(providers)
    /\ retired[call.name] # {}
\* C11: unregister(name) for a name that is not registered returns without raising
\* and leaves the type mapping, the instance mapping and the host table unchanged.
UnregisterAbsentIsNoOp ==
    [][(IsCall(call', "unregister") /\ call'.name \notin Keys(providers))
          => (call'.outcome = "ok" /\ UNCHANGED regState)]_vars

\* a never registered name was unregistered while another name has a cached instance
\* and a record in the host table
UnregisterAbsentIsNoOpWitness ==
    /\ IsCall(call, "unregister")
    /\ call.outcome = "ok"
    /\ call.name \in UnknownNames
    /\ DOMAIN instances # {}
    /\ Len(custom_provider_map) > 0

\* C13: a successful register(name, T) constructs nothing: afterwards name has a type
\* entry and no instance entry; an instance entry for a name appears only in a
\* get_provider(name), initialize() or initialize_provider(name) call.
RegisterCreatesNoInstance ==
    [][/\ (IsCall(call', "register") /\ call'.outcome = "ok")
            => /\ call'.name \in Keys(providers')
               /\ Lookup(providers', call'.name) = call'.cls
               /\ call'.name \notin DOMAIN instances'
               /\ instances' = instances
               /\ nextId' = nextId
       /\ \A n \in Names :
              (n \notin DOMAIN instances /\ n \in DOMAIN instances')
                  => \/ IsCall(call', "get_provider") /\ call'.name = n
                     \/ IsCall(call', "initialize")
                     \/ IsCall(call', "initialize_provider") /\ call'.name = n
      ]_vars

\* a name whose earlier instance was dropped was registered again and has no instance
RegisterCreatesNoInstanceWitness ==
    /\ IsCall(call, "register")
    /\ call.outcome = "ok"
    /\ retired[call.name] # {}
    /\ call.name \notin DOMAIN instances

\* C14: with LITELLM_AVAILABLE false, initialize() and initialize_provider(name) raise
\* ImportError, construct no object and change neither mapping nor the host table.
UnavailableIntegrationRaisesFirst ==
    [][(call'.op \in {"initialize", "initialize_provider"} /\ ~LITELLM_AVAILABLE)
          => (call'.outcome = "ImportError" /\ UNCHANGED <<regState, nextId>>)]_vars

\* initialize() raised ImportError on a registry with two names and no instance
UnavailableIntegrationRaisesFirstWitness ==
    /\ IsCall(call, "initialize")
    /\ call.outcome = "ImportError"
    /\ Len(providers) = 2
    /\ \E i \in 1..2 : ~CtorRaises(providers[i].cls)
    /\ DOMAIN instances = {}

\* C15: with integration available, initialize_provider(name) for a name that is not
\* registered raises ValueError and changes neither mapping nor the host table.
InitializeProviderUnknownName ==
    [][(IsCall(call', "initialize_provider") /\ LITELLM_AVAILABLE
            /\ call'.name \notin Keys(providers))
          => (call'.outcome = "ValueError" /\ UNCHANGED <<regState, nextId>>)]_vars

\* initialize_provider raised ValueError for a name that was registered, instantiated
\* and unregistered
InitializeProviderUnknownNameWitness ==
    /\ IsCall(call, "initialize_provider")
    /\ call.outcome = "ValueError"
    /\ LITELLM_AVAILABLE
    /\ retired[call.name] # {}
    /\ call.name \notin Keys(providers)

\* C16: with integration available, an initialize_provider(name) that returns appends
\* exactly the record (name, instance cached for name) to the host table, constructs
\* an object for name only if name had none, and leaves the type mapping and every
\* other name's instance entry as they were; it returns whenever name is registered
\* and its instance exists or can be constructed.
InitializeProviderOnlyThatName ==
    [][/\ (IsCall(call', "initialize_provider") /\ call'.outcome = "ok")
            => /\ LITELLM_AVAILABLE
               /\ call'.name \in Keys(providers)
               /\ call'.name \in DOMAIN instances'
               /\ custom_provider_map'
                    = Append(custom_provider_map, Record(call'.name, instances'[call'.name]))
               /\ call'.name \in DOMAIN instances
                    => instances'[call'.name] = instances[call'.name]
               /\ providers' = providers
               /\ \A m \in Names \ {call'.name} :
                      /\ (m \in DOMAIN instances') = (m \in DOMAIN instances)
                      /\ m \in DOMAIN instances => instances'[m] = instances[m]
                      /\ nextId'[m] = nextId[m]
       /\ (/\ IsCall(call', "initialize_provider") /\ LITELLM_AVAILABLE
           /\ call'.name \in Keys(providers)
           /\ (call'.name \in DOMAIN instances \/ ~CtorRaises(Lookup(providers, call'.name))))
            => call'.outcome = "ok"
      ]_vars

\* initialize_provider returned for one of two registered names; the other name has
\* no instance and no record
InitializeProviderOnlyThatNameWitness ==
    /\ IsCall(call, "initialize_provider")
    /\ call.outcome = "ok"
    /\ Len(providers) = 2
    /\ DOMAIN instances = {call.name}
    /\ Len(custom_provider_map) = 1

\* C17: the records one initialize() call appends follow the order of _providers, which
\* is the order of the names' most recent registrations: register puts the name last,
\* unregister keeps the order of the names that remain.
InitializeInRegistrationOrder ==
    [][/\ IsCall(call', "initialize")
            => \A i \in 1..Len(Appended) : Appended[i].provider = providers[i].name
       /\ (IsCall(call', "register") /\ call'.outcome = "ok")
            => /\ Len(providers') = Len(providers) + 1
               /\ providers'[Len(providers')].name = call'.name
               /\ SubSeq(providers', 1, Len(providers)) = providers
       /\ IsCall(call', "unregister")
            => \A i \in 1..Len(providers'), j \in 1..Len(providers') :
                   i < j => \E k \in 1..Len(providers), l \in 1..Len(providers) :
                                k < l /\ providers[k] = providers'[i] /\ providers[l] = providers'[j]
      ]_vars

\* initialize() returned on a registry where "b" was registered before "a"
InitializeInRegistrationOrderWitness ==
    /\ IsCall(call, "initialize")
    /\ call.outcome = "ok"
    /\ Len(providers) = 2
    /\ providers[1].name = "b"
    /\ Len(custom_provider_map) = 2
    /\ custom_provider_map[1].provider = "b"

\* C18: list_providers() returns exactly the registered names, each once; no name
\* occurs twice in _providers.
ListProvidersExact ==
    [][IsCall(call', "list_providers")
          => /\ call'.outcome = "ok"
             /\ {call'.listing[i] : i \in 1..Len(call'.listing)} = Keys(providers)
             /\ Len(call'.listing) = Cardinality(Keys(providers))
             /\ Len(providers) = Cardinality(Keys(providers))
             /\ UNCHANGED regState
      ]_vars

\* list_providers() listed one name, which had been unregistered and registered again,
\* while that name has no instance
ListProvidersExactWitness ==
    /\ IsCall(call, "list_providers")
    /\ Len(call.listing) = 1
    /\ retired[call.listing[1]] # {}
    /\ DOMAIN instances = {}

\* C20: across every call the host table before is a prefix of the host table after;
\* register, unregister, get_provider and list_providers leave it unchanged.
HostTableAppendOnly ==
    [][/\ Len(custom_provider_map') >= Len(custom_provider_map)
       /\ SubSeq(custom_provider_map', 1, Len(custom_provider_map)) = custom_provider_map
       /\ call'.op \in {"register", "unregister", "get_provider", "list_providers"}
            => custom_provider_map' = custom_provider_map
      ]_vars

\* a name was unregistered and the host table still holds the record appended for it
HostTableAppendOnlyWitness ==
    /\ IsCall(call, "unregister")
    /\ call.name \notin Keys(providers)
    /\ \E i \in 1..Len(custom_provider_map) :
           /\ custom_provider_map[i].provider = call.name
           /\ custom_provider_map[i].custom_handler \in retired[call.name]

ListProvidersReturnsCopy ==
    [][/\ held' # held => UNCHANGED <<regState, nextId, LITELLM_AVAILABLE>>
       /\ held' = held => HeldItems' = HeldItems
       /\ IsCall(call', "list_providers")
            => call'.listing = [i \in 1..Len(providers') |-> providers'[i].name]
       /\ (IsCall(call', "get_provider") /\ call'.name \notin Keys(providers))
            => call'.result = None
       /\ (IsCall(call', "initialize") /\ call'.outcome = "ok")
            => \A i \in 1..Len(Appended) : Appended[i].provider \in Keys(providers)
      ]_vars

\* the caller appended a name to the list it kept and removed a registered name from
\* it; the removed name is still registered, and a name registered afterwards is not
\* in the list
ListProvidersReturnsCopyWitness ==
    /\ IsCall(call, "register") /\ call.outcome = "ok"
    /\ held.kind = "list"
    /\ Elements(held.items) = FakeNames
    /\ Keys(providers) = Names

\* C23: every cached instance is an instance of the class registered under its name
\* and was constructed for that name; a get_provider that returned an instance
\* returned one of the class registered now, never an instance that was cached when
\* the name was unregistered earlier.
InstanceHasRegisteredType ==
    /\ \A n \in DOMAIN instances :
          /\ n \in Keys(providers)
          /\ instances[n].cls = Lookup(providers, n)
          /\ instances[n].owner = n
    /\ (IsCall(call, "get_provider") /\ call.outcome = "ok" /\ call.result # None)
          => /\ call.name \in Keys(providers)
             /\ call.result.cls = Lookup(providers, call.name)
             /\ call.result \notin retired[call.name]

\* a name was unregistered with a cached TestProviderA instance, registered again as
\* TestProviderB, and get_provider returned a TestProviderB instance
InstanceHasRegisteredTypeWitness ==
    /\ IsCall(call, "get_provider")
    /\ call.result # None
    /\ call.result.cls = "TestProviderB"
    /\ \E o \in retired[call.name] : o.cls = "TestProviderA"

\* C24: register(name, T), unregister(name) and get_provider(name) leave every other
\* name as it was: registered or not, its class, cached or not, and the cached
\* object; get_provider of a name with a cached instance returns that object.
OtherNamesUntouched ==
    [][/\ call'.op \in {"register", "unregister", "get_provider"}
            => \A m \in Names \ {call'.name} :
                  /\ (m \in Keys(providers')) = (m \in Keys(providers))
                  /\ m \in Keys(providers) => Lookup(providers', m) = Lookup(providers, m)
                  /\ (m \in DOMAIN instances') = (m \in DOMAIN instances)
                  /\ m \in DOMAIN instances => instances'[m] = instances[m]
       /\ (IsCall(call', "get_provider") /\ call'.name \in DOMAIN instances)
            => (call'.result = instances[call'.name] /\ UNCHANGED instances)
      ]_vars

\* a name with a cached instance was unregistered while the one other registered
\* name keeps its cached instance
OtherNamesUntouchedWitness ==
    /\ IsCall(call, "unregister")
    /\ retired[call.name] # {}
    /\ Cardinality(Keys(providers)) = 1
    /\ DOMAIN instances = Keys(providers)
    /\ call.name \notin Keys(providers)

\* C25: after every initialize() that returned, the host table ends with one record
\* per registered name, in order, holding the cached instance, whether or not the
\* instance existed before the call; and
\* an initialize() that returns right after an initialize() that returned leaves
\* the type mapping, the instance mapping and the object identities unchanged (no
\* constructor runs) and appends one record per registered name again, each equal to
\* the record the call before appended for that name.
InitializeRepeatable ==
    /\ [](IsCall(call, "initialize") /\ call.outcome = "ok"
            => /\ Len(custom_provider_map) >= Len(providers)
               /\ \A i \in 1..Len(providers) :
                     /\ providers[i].name \in DOMAIN instances
                     /\ custom_provider_map[Len(custom_provider_map) - Len(providers) + i]
                          = Record(providers[i].name, instances[providers[i].name]))
    /\ [][(/\ IsCall(call, "initialize") /\ call.outcome = "ok"
           /\ IsCall(call', "initialize") /\ call'.outcome = "ok")
             => /\ UNCHANGED <<providers, instances, nextId>>
                /\ Len(Appended) = Len(providers)
                /\ Len(custom_provider_map) >= Len(providers)
                /\ \A i \in 1..Len(Appended) :
                      /\ Appended[i].provider = providers[i].name
                      /\ Appended[i] = custom_provider_map[Len(custom_provider_map) - Len(providers) + i]
         ]_vars

\* initialize() returned with one registered name and the host table holds two
\* records for that name with the same handler object
InitializeRepeatableWitness ==
    /\ IsCall(call, "initialize") /\ call.outcome = "ok"
    /\ Len(providers) = 1
    /\ Len(custom_provider_map) = 2
    /\ custom_provider_map[1] = custom_provider_map[2]
    /\ custom_provider_map[1].provider = providers[1].name
    /\ nextId[providers[1].name] = 2

\* C26: register of a registered name with a non-conforming class raises the
\* duplicate-name ValueError, not the TypeError; initialize_provider of an
\* unregistered name with the integration unavailable raises ImportError, not the
\* unknown-name ValueError.
GuardOrder ==
    [][/\ (IsCall(call', "register") /\ call'.name \in Keys(providers)
                /\ ~IsSubclassOfBase(call'.cls))
            => (call'.outcome = "ValueError" /\ UNCHANGED regState)
       /\ (IsCall(call', "initialize_provider") /\ ~LITELLM_AVAILABLE
                /\ call'.name \notin Keys(providers))
            => (call'.outcome = "ImportError" /\ UNCHANGED regState)
      ]_vars

\* register of a registered name with a non-conforming class raised ValueError
GuardOrderWitness ==
    /\ IsCall(call, "register")
    /\ call.name \in Keys(providers)
    /\ ~IsSubclassOfBase(call.cls)
    /\ call.outcome = "ValueError"

\* C27: whenever no thread is inside get_provider or unregister, every name with a
\* cached instance is a registered name, however the steps of a get_provider(name)
\* and of an unregister(name) in another thread were interleaved.
QuiescentSubsetInvariant ==
    (\A t \in Threads : pc[t] \in {"idle", "done"}) => DOMAIN instances \subseteq Keys(providers)

\* C22: a capability operation of BaseCustomProvider that has run its body has raised
\* NotImplementedError and returned no value: completion, streaming,
\* image_generation and embedding when called, acompletion, aimage_generation and
\* aembedding when the coroutine the call returned is awaited, astreaming when the
\* async generator the call returned is first advanced; until then only the
\* coroutine or the async generator exists.
UnimplementedRaises ==
    app.fn \in CapabilityOps =>
        /\ app.run.stage = "finished"
              => (app.run.outcome = "NotImplementedError" /\ app.run.value = "-")
        /\ app.run.stage # "finished"
              => \/ (app.fn \in CoroutineOps /\ app.run.stage = "coroutine")
                 \/ (app.fn \in AsyncGeneratorOps /\ app.run.stage = "async_generator")
        /\ app.fn \in SyncOps => app.run.stage = "finished"

\* aembedding was called and awaited and raised NotImplementedError
UnimplementedRaisesWitness ==
    /\ app.fn = "aembedding"
    /\ app.run.stage = "finished"
    /\ app.run.outcome = "NotImplementedError"
    /\ app.run.msg = "aembedding() not implemented for this provider"

\* C28: the content of the response of EchoProvider.completion is "Echo: " followed by
\* the content of the message with role "user" that has the greatest index, and
\* exactly "Echo: " when no message has role "user" or that message has no content
\* key; the response's model is the model argument; api_base plays no part.
EchoReturnsLastUserMessage ==
    (app.fn = "EchoProvider.completion" /\ app.response # Pending) =>
        LET users == {i \in 1..Len(app.messages) :
                         "role" \in DOMAIN app.messages[i] /\ app.messages[i].role = "user"}
            last == CHOOSE i \in users : \A j \in users : j <= i
        IN /\ app.response.model = app.model
           /\ users = {} => app.response.content = "Echo: "
           /\ users # {} =>
                 IF "content" \in DOMAIN app.messages[last]
                 THEN app.response.content = "Echo: " \o app.messages[last].content
                 ELSE app.response.content = "Echo: "

\* two user messages with different contents followed by an assistant message: the
\* second one is echoed
EchoReturnsLastUserMessageWitness ==
    /\ app.fn = "EchoProvider.completion"
    /\ app.response # Pending
    /\ Len(app.messages) = 3
    /\ app.messages[1] = [role |-> "user", content |-> "Hello"]
    /\ app.messages[2] = [role |-> "user", content |-> "Second message"]
    /\ app.messages[3] = [role |-> "assistant", content |-> "Hello"]
    /\ app.response.content = "Echo: Second message"
    /\ app.api_base # "None"

\* C29: MockAPIProvider.completion raises ValueError exactly when the api_key argument
\* and default_api_key are both None or ""; it raises with no response produced;
\* otherwise it goes on with the api_key argument as the key when that is non-empty
\* and the default key when it is not, and returns a response.
ApiKeyRequired ==
    (app.fn = "MockAPIProvider.completion" /\ app.stage # "called") =>
        LET noKey == app.api_key \in {PyNone, ""} /\ app.default_api_key \in {PyNone, ""}
        IN /\ (app.outcome = "ValueError") = noKey
           /\ noKey => (app.stage = "raised" /\ app.response = Pending)
           /\ ~noKey =>
                 /\ app.stage \in {"keyed", "returned"}
                 /\ app.used = IF app.api_key \in {PyNone, ""}
                               THEN app.default_api_key ELSE app.api_key
                 /\ app.stage = "returned" => (app.outcome = "ok" /\ app.response # Pending)

\* a call with both an api_key argument and a default key returned a response and
\* used the argument
ApiKeyRequiredWitness ==
    /\ app.fn = "MockAPIProvider.completion"
    /\ app.stage = "returned"
    /\ app.api_key = "provided-key"
    /\ app.default_api_key = "default-key"
    /\ app.used = "provided-key"
    /\ app.response # Pending

\* C30: after the hook ran on a non-empty content, the content holds no occurrence of
\* any blocked word, and a content that held no blocked word is unchanged.
NoBlockedWordRemains ==
    (/\ app.fn = "ContentFilter.async_post_call_success_hook"
     /\ app.stage = "returned"
     /\ app.content # <<>>)
        => /\ \A i \in 1..Len(app.blocked_words) : ~Contains(app.result, app.blocked_words[i])
           /\ (\A i \in 1..Len(app.blocked_words) : ~Contains(app.content, app.blocked_words[i]))
                 => app.result = app.content

\* C21: get_registry() returns the process-wide registry object on every call;
\* register_provider, get_provider and initialize_plugins act on that object and
\* leave a separately constructed registry as it is; a name registered through
\* register_provider is listed by get_registry().list_providers(); get_provider(name)
\* and get_registry().get_provider(name) return the instance cached in that object;
\* and calls on a separately constructed registry leave the process-wide one as it is.
OneProcessWideRegistry ==
    [][/\ got'.registry \in {"-", GlobalRegistry}
       /\ got'.before \in {"-", got'.registry}
       /\ got'.via \in {"register_provider", "get_provider", "initialize_plugins",
                         "registry.list_providers", "registry.get_provider",
                         "registry.unregister"}
            => (got'.target = GlobalRegistry /\ local' = local)
       /\ (got'.via = "register_provider" /\ got'.outcome = "ok")
            => (got'.name \in Keys(providers') /\ Lookup(providers', got'.name) \in GlobalTypes)
       /\ got'.via = "registry.list_providers"
            => got'.listing = [i \in 1..Len(providers) |-> providers[i].name]
       /\ (got'.via \in {"get_provider", "registry.get_provider"} /\ got'.outcome = "ok")
            => got'.result = InstGet(instances', got'.name)
       /\ got'.via \in {"PluginRegistry", "local.register", "local.get_provider"}
            => UNCHANGED <<providers, instances, custom_provider_map>>
      ]_vars

\* get_registry().get_provider(name) returned the instance that get_provider(name)
\* had constructed in the process-wide registry, while a separately constructed
\* registry has the same name registered and no instance
OneProcessWideRegistryWitness ==
    /\ got.via = "registry.get_provider"
    /\ got.before = GlobalRegistry
    /\ got.result # None
    /\ got.result = InstGet(instances, got.name)
    /\ local.made
    /\ got.name \in Keys(local.providers)
    /\ local.instances = <<>>
====
